---- MODULE Spec2Model ----
(***************************************************************************)
(* A model of src/d_auto.py: the daily acquisition-and-reconciliation      *)
(* pipeline (CalyxReportDownloader, PDFDataExtractor, the two fetchers,     *)
(* DataProcessor, DatabaseManager and FinancialDataAutomation).             *)
(*                                                                         *)
(* Cell values are strings; NaN stands for pandas' null.  A DataFrame is a  *)
(* record [cols |-> set of column names, rows |-> sequence of records].     *)
(* File names and ticker symbols that the code inspects character by        *)
(* character (endswith, lower, the exclusion regex) are sequences of        *)
(* one-character strings.                                                   *)
(***************************************************************************)
EXTENDS Integers, Sequences, FiniteSets, TLC

VARIABLES
    \* run_full_pipeline
    pc,              \* position in run_full_pipeline / its callees
    result,          \* return value of run_full_pipeline: "none", "True", "False"
    raisedBy,        \* the operation whose exception reached its except clause, or "none"
    optDownload,     \* parameter download_report
    optUpload,       \* parameter upload_to_db
    ops,             \* the operations started in this run, in order
    \* the download directory (config.download_dir)
    dir,             \* file name -> "absent" | "empty" | "nonempty"
    \* CalyxReportDownloader.download_report
    browser,         \* the Chrome process: "none", "running", "quit"
    driver,          \* local `driver` is not None
    wait,            \* local `wait` is not None
    steps,           \* the acquisition steps started in this attempt, in order
    dlRaised,        \* the step that raised, or "none"
    dlResult,        \* return value of download_report: "none", "True", "False"
    dirAtCheck,      \* the directory as _check_if_pdf_exists listed it
    teardown,        \* the teardown events of this attempt, in order
    \* FinancialDataAutomation._find_any_pdf_in_folder
    elapsed,         \* time.time() - start_time
    pdf_path,        \* the file returned, None when none
    \* PDFDataExtractor.extract_nge_data and the document
    pdf_table,       \* the rows of the tables of the document found, page after page
    all_data,        \* the rows extract_nge_data accepted
    \* TradingViewDataFetcher.fetch_data and the quotes source
    quote_feed,      \* the pages the quotes source serves, <<>> before it is asked
    tv_posts,        \* the POST requests fetch_data has issued
    \* the data frames of run_full_pipeline
    df_calyx, df_tradingview, df_ngx, df_final, df_market_stats,
    counts,          \* the counters of _clean_data
    \* NGNMarketDataFetcher.fetch_all_companies
    page, all_companies, requests,
    paused,          \* time.sleep(0.5) has run since the last page request
    \* DatabaseManager
    engine,          \* "None" or "engine"
    table,           \* the keys (symbols of the run's date) stored at the destination
    uploaded, skipped, errors, idx,
    storeLog,        \* every insert attempt of upload_data and what the store answered
    udRaised         \* an exception left upload_data

plVars   == <<pc, result, raisedBy, optDownload, optUpload, ops>>
fsVars   == <<dir>>
dlVars   == <<browser, driver, wait, steps, dlRaised, dlResult, dirAtCheck, teardown>>
pollVars == <<elapsed, pdf_path>>
dataVars == <<df_calyx, df_tradingview, df_ngx, df_final, df_market_stats, counts>>
ngnVars  == <<page, all_companies, requests, paused>>
dbVars   == <<engine, table, uploaded, skipped, errors, idx, storeLog, udRaised>>
tvVars   == <<quote_feed, tv_posts>>
pdfVars  == <<pdf_table, all_data>>
vars     == <<plVars, fsVars, dlVars, pollVars, dataVars, ngnVars, dbVars, tvVars, pdfVars>>

----------------------------------------------------------------------------
(* Bounds of the model *)

\* rows of the report, and of the quotes response, in a pipeline run
MaxPipeRows == 1
\* pages the company directory serves in a pipeline run
MaxPages == 2
\* records on one page of the company directory
MaxPageLen == 2
\* rows of the tables of a document given to extract_nge_data on its own
MaxTableRows == 2

----------------------------------------------------------------------------
(* Characters and strings *)

RECURSIVE Lower(_)
LowerChar(c) ==
    CASE c = "A" -> "a" [] c = "B" -> "b" [] c = "C" -> "c" [] c = "D" -> "d"
      [] c = "E" -> "e" [] c = "F" -> "f" [] c = "G" -> "g" [] c = "H" -> "h"
      [] c = "I" -> "i" [] c = "J" -> "j" [] c = "K" -> "k" [] c = "L" -> "l"
      [] c = "M" -> "m" [] c = "N" -> "n" [] c = "O" -> "o" [] c = "P" -> "p"
      [] c = "Q" -> "q" [] c = "R" -> "r" [] c = "S" -> "s" [] c = "T" -> "t"
      [] c = "U" -> "u" [] c = "V" -> "v" [] c = "W" -> "w" [] c = "X" -> "x"
      [] c = "Y" -> "y" [] c = "Z" -> "z" [] OTHER -> c

\* str.lower()
Lower(s) == IF s = <<>> THEN <<>> ELSE <<LowerChar(Head(s))>> \o Lower(Tail(s))

\* str.endswith(suffix)
EndsWith(s, suffix) ==
    /\ Len(s) >= Len(suffix)
    /\ SubSeq(s, Len(s) - Len(suffix) + 1, Len(s)) = suffix

\* `sub in s`
Contains(s, sub) ==
    \E i \in 1..(Len(s) - Len(sub) + 1) : SubSeq(s, i, i + Len(sub) - 1) = sub

DotPdf == <<".", "p", "d", "f">>
DotCrdownload == <<".", "c", "r", "d", "o", "w", "n", "l", "o", "a", "d">>

----------------------------------------------------------------------------
(* The download directory *)

ReportPdf     == <<"r">> \o DotPdf
UpperPdf      == <<"R", ".", "P", "D", "F">>
PartialReport == <<"r">> \o DotPdf \o DotCrdownload

FileNames == {ReportPdf, UpperPdf, PartialReport}
FileStates == {"absent", "empty", "nonempty"}
None == <<>>

\* tempfile.mkdtemp() at Config construction: a fresh, empty directory
EmptyDir == [f \in FileNames |-> "absent"]

\* os.listdir(download_dir)
listdir(d) == {f \in FileNames : d[f] # "absent"}

\* The browser's download, or anybody else, writes, completes or removes a
\* file while the run is acquiring or waiting for the report.
EnvFileChange ==
    /\ pc \in {"dl_setup", "dl_login", "dl_navigate", "dl_generate", "dl_export",
               "dl_confirm", "dl_except", "dl_finally", "dl_logout", "dl_fallback",
               "dl_quit", "dl_return", "poll"}
    /\ \E f \in FileNames, st \in FileStates :
          /\ dir[f] # st
          /\ dir' = [dir EXCEPT ![f] = st]
    /\ UNCHANGED <<plVars, dlVars, pollVars, dataVars, ngnVars, dbVars>>
    /\ UNCHANGED tvVars
    /\ UNCHANGED pdfVars

----------------------------------------------------------------------------
(* CalyxReportDownloader *)

\* _check_if_pdf_exists: any listed name that ends, lower-cased, with .pdf
check_if_pdf_existsAnyFile(d) == listdir(d) # {}
check_if_pdf_existsNoLower(d) == \E f \in listdir(d) : EndsWith(f, DotPdf)
check_if_pdf_exists(d) == \E f \in listdir(d) : EndsWith(Lower(f), DotPdf)

\* a step of the try block raised: control goes to the except clause
RaiseResumes(step) ==
    /\ dlRaised' = step
    /\ pc' = IF step = "authenticate" THEN "dl_navigate" ELSE "dl_except"
Raise(step) ==
    /\ dlRaised' = step
    /\ pc' = "dl_except"

\* setup_chrome_driver, then WebDriverWait(driver, 30).  webdriver.Chrome may
\* raise (no browser); execute_cdp_cmd may raise after the browser was
\* created, and then `driver` of download_report is never assigned.
setup_chrome_driver ==
    /\ pc = "dl_setup"
    /\ steps' = Append(steps, "setup")
    /\ \/ /\ browser' = "running"
          /\ driver' = TRUE
          /\ wait' = TRUE
          /\ pc' = "dl_login"
          /\ UNCHANGED dlRaised
       \/ /\ Raise("setup")
          /\ UNCHANGED <<browser, driver, wait>>
       \/ /\ browser' = "running"
          /\ Raise("setup")
          /\ UNCHANGED <<driver, wait>>
    /\ UNCHANGED <<result, raisedBy, optDownload, optUpload, ops, dlResult, dirAtCheck, teardown>>
    /\ UNCHANGED <<fsVars, pollVars, dataVars, ngnVars, dbVars>>
    /\ UNCHANGED tvVars
    /\ UNCHANGED pdfVars

\* one step of the try block that runs to its end or raises
Step(at, name, next) ==
    /\ pc = at
    /\ steps' = Append(steps, name)
    /\ \/ pc' = next /\ UNCHANGED dlRaised
       \/ Raise(name)
    /\ UNCHANGED <<result, raisedBy, optDownload, optUpload, ops>>
    /\ UNCHANGED <<browser, driver, wait, dlResult, dirAtCheck, teardown>>
    /\ UNCHANGED <<fsVars, pollVars, dataVars, ngnVars, dbVars>>
    /\ UNCHANGED tvVars
    /\ UNCHANGED pdfVars

login == Step("dl_login", "authenticate", "dl_navigate")

navigate_to_reports == Step("dl_navigate", "navigate", "dl_generate")

generate_report == Step("dl_generate", "parameterize", "dl_export")

\* _export_report up to the selection of the PDF format: entering the viewer
\* frame, clicking the export icon, entering the dialog frame, selecting the
\* format.  Each of these waits may raise, and nothing around them catches.
export_report == Step("dl_export", "export", "dl_confirm")

\* the try/except around the OK click: does a failure of the click leave
\* _export_report?  The except clause logs and falls through.
ok_click_raisesUncaught(clicked) == ~clicked
ok_click_raises(clicked) == FALSE

\* _export_report, the OK click: what it raises is swallowed; then the fixed
\* sleep, and download_report returns True through its finally clause
export_confirm ==
    /\ pc = "dl_confirm"
    /\ \E clicked \in BOOLEAN :
          /\ steps' = Append(steps, IF clicked THEN "confirm" ELSE "confirm_swallowed")
          /\ IF ok_click_raises(clicked)
             THEN /\ Raise("confirm")
                  /\ UNCHANGED dlResult
             ELSE /\ dlResult' = "True"
                  /\ pc' = "dl_finally"
                  /\ UNCHANGED dlRaised
    /\ UNCHANGED <<result, raisedBy, optDownload, optUpload, ops>>
    /\ UNCHANGED <<browser, driver, wait, dirAtCheck, teardown>>
    /\ UNCHANGED <<fsVars, pollVars, dataVars, ngnVars, dbVars>>
    /\ UNCHANGED tvVars
    /\ UNCHANGED pdfVars

\* the except clause of download_report
download_report_except ==
    /\ pc = "dl_except"
    /\ dirAtCheck' = dir
    /\ dlResult' = IF check_if_pdf_exists(dir) THEN "True" ELSE "False"
    /\ pc' = "dl_finally"
    /\ UNCHANGED <<result, raisedBy, optDownload, optUpload, ops>>
    /\ UNCHANGED <<browser, driver, wait, steps, dlRaised, teardown>>
    /\ UNCHANGED <<fsVars, pollVars, dataVars, ngnVars, dbVars>>
    /\ UNCHANGED tvVars
    /\ UNCHANGED pdfVars

\* the finally clause of download_report: teardown only `if driver and wait`
TeardownGuard(d, w) == d /\ w

download_report_finally ==
    /\ pc = "dl_finally"
    /\ pc' = IF TeardownGuard(driver, wait) THEN "dl_logout" ELSE "dl_return"
    /\ UNCHANGED <<result, raisedBy, optDownload, optUpload, ops>>
    /\ UNCHANGED <<fsVars, dlVars, pollVars, dataVars, ngnVars, dbVars>>
    /\ UNCHANGED tvVars
    /\ UNCHANGED pdfVars

\* where _logout_and_cleanup goes after its try block: to the finally clause
\* when nothing was raised, into the except clause otherwise
after_logoutAlwaysFallback(ok) == "dl_fallback"
after_logout(ok) == IF ok THEN "dl_quit" ELSE "dl_fallback"

\* _logout_and_cleanup, the graceful logout
logout_graceful ==
    /\ pc = "dl_logout"
    /\ \E ok \in BOOLEAN :
          /\ teardown' = Append(teardown, IF ok THEN "logout" ELSE "logout_failed")
          /\ pc' = after_logout(ok)
    /\ UNCHANGED <<result, raisedBy, optDownload, optUpload, ops>>
    /\ UNCHANGED <<browser, driver, wait, steps, dlRaised, dlResult, dirAtCheck>>
    /\ UNCHANGED <<fsVars, pollVars, dataVars, ngnVars, dbVars>>
    /\ UNCHANGED tvVars
    /\ UNCHANGED pdfVars

\* _logout_and_cleanup, the direct logout URL
logout_fallback ==
    /\ pc = "dl_fallback"
    /\ \E ok \in BOOLEAN :
          teardown' = Append(teardown, IF ok THEN "logout_url" ELSE "logout_url_failed")
    /\ pc' = "dl_quit"
    /\ UNCHANGED <<result, raisedBy, optDownload, optUpload, ops>>
    /\ UNCHANGED <<browser, driver, wait, steps, dlRaised, dlResult, dirAtCheck>>
    /\ UNCHANGED <<fsVars, pollVars, dataVars, ngnVars, dbVars>>
    /\ UNCHANGED tvVars
    /\ UNCHANGED pdfVars

\* _logout_and_cleanup, its finally clause: driver.quit()
driver_quit ==
    /\ pc = "dl_quit"
    /\ browser' = "quit"
    /\ teardown' = Append(teardown, "quit")
    /\ pc' = "dl_return"
    /\ UNCHANGED <<result, raisedBy, optDownload, optUpload, ops>>
    /\ UNCHANGED <<driver, wait, steps, dlRaised, dlResult, dirAtCheck>>
    /\ UNCHANGED <<fsVars, pollVars, dataVars, ngnVars, dbVars>>
    /\ UNCHANGED tvVars
    /\ UNCHANGED pdfVars

----------------------------------------------------------------------------
(* Cell values, rows and frames *)

NaN == <<"NaN">>
EmptyFrame == [cols |-> {}, rows |-> <<>>]

SeqsUpTo(S, n) == UNION {[1..k -> S] : k \in 0..n}

VSPBONDETF == <<"V", "S", "P", "B", "O", "N", "D", "E", "T", "F">>
VETGOODS == <<"V", "E", "T", "G", "O", "O", "D", "S">>
LOTUSHAL15 == <<"L", "O", "T", "U", "S", "H", "A", "L", "1", "5">>
GREENWETF == <<"G", "R", "E", "E", "N", "W", "E", "T", "F">>
STANBICETF30 == <<"S", "T", "A", "N", "B", "I", "C", "E", "T", "F", "3", "0">>
MERVALUE == <<"M", "E", "R", "V", "A", "L", "U", "E">>
SIAMLETF40 == <<"S", "I", "A", "M", "L", "E", "T", "F", "4", "0">>
MERGROWTH == <<"M", "E", "R", "G", "R", "O", "W", "T", "H">>
VETGRIF30 == <<"V", "E", "T", "G", "R", "I", "F", "3", "0">>
VETINDETF == <<"V", "E", "T", "I", "N", "D", "E", "T", "F">>
VETBANK == <<"V", "E", "T", "B", "A", "N", "K">>
NEWGOLD == <<"N", "E", "W", "G", "O", "L", "D">>
DANGCEM == <<"D", "A", "N", "G", "C", "E", "M">>
GOLD1 == <<"G", "O", "L", "D", "1">>
ZENITH == <<"Z", "E", "N", "I", "T", "H">>

\* the business date of the run, as the extractor stamps it and as
\* _clean_data converts it
ReportDate == <<"date", "05/02/2026">>
to_datetime(d) == IF d = NaN THEN NaN ELSE <<"datetime">> \o Tail(d)

CalyxCols == {"SN", "Symbol", "Close", "Date"}
TVCols == {"Symbol", "Description", "Price", "P/E", "Sector"}
NgxCols == {"Symbol", "Market cap", "Sector", "price"}

ReportRow(sn, sym, close) ==
    ("SN" :> sn) @@ ("Symbol" :> sym) @@ ("Close" :> close) @@ ("Date" :> ReportDate)

QuoteRow(sym, pe) ==
    ("Symbol" :> sym) @@ ("Description" :> <<"x">>) @@ ("Price" :> <<"5">>)
        @@ ("P/E" :> pe) @@ ("Sector" :> <<"t">>)

Company(id, sym, cap, sector) ==
    [id |-> id, symbol |-> sym, marketCap |-> cap, sector |-> sector, price |-> <<"5">>]

----------------------------------------------------------------------------
(* DataProcessor *)

excluded_symbols ==
    {VSPBONDETF, VETGOODS, LOTUSHAL15, GREENWETF, STANBICETF30, MERVALUE,
     SIAMLETF40, MERGROWTH, VETGRIF30, VETINDETF, VETBANK, NEWGOLD}

Digits == {"0", "1", "2", "3", "4", "5", "6", "7", "8", "9"}
Whitespace == {" ", "\t", "\n"}

\* the pattern without its (?i) flag
matches_exclude_patternCaseSensitive(sym) ==
    /\ sym # NaN
    /\ \/ Contains(sym, <<"E", "T", "F">>)
       \/ Contains(sym, <<"E", "F", "T">>)
       \/ Contains(sym, <<"F", "G", "S", "U", "K">>)
       \/ \E i \in 1..Len(sym) : sym[i] \in Digits

\* Series.str.contains(r'(?i)ETF|EFT|FGSUK|\d', regex=True, na=False)
matches_exclude_pattern(sym) ==
    /\ sym # NaN
    /\ \/ Contains(Lower(sym), <<"e", "t", "f">>)
       \/ Contains(Lower(sym), <<"e", "f", "t">>)
       \/ Contains(Lower(sym), <<"f", "g", "s", "u", "k">>)
       \/ \E i \in 1..Len(sym) : sym[i] \in Digits

\* a cell matching r'^\s*$'
IsBlank(v) == \A i \in 1..Len(v) : v[i] \in Whitespace

\* pandas' left merge on Symbol: every left row, in order, once per matching
\* right row (in the right frame's order), or once with nulls when none matches
JoinRows(l, right, take) ==
    LET Match(r) == r["Symbol"] = l["Symbol"]
        ms == SelectSeq(right, Match)
    IN  IF ms = <<>>
        THEN << l @@ [c \in take |-> NaN] >>
        ELSE [i \in 1..Len(ms) |-> l @@ [c \in take |-> ms[i][c]]]

RECURSIVE LeftJoin(_, _, _)
LeftJoin(left, right, take) ==
    IF left = <<>> THEN <<>>
    ELSE JoinRows(Head(left), right, take) \o LeftJoin(Tail(left), right, take)

\* DataFrame.replace(r'^\s*$', np.nan, regex=True) and the Date conversion
CleanRow(r) ==
    [c \in DOMAIN r |->
        IF c = "Date" THEN to_datetime(r[c])
        ELSE IF IsBlank(r[c]) THEN NaN ELSE r[c]]

\* a cleaning pass that counts the pattern's matches over the whole frame
clean_dataCountsAllMatches(df) ==
    LET initial_count == Len(df.rows)
        NotListed(r) == r["Symbol"] \notin excluded_symbols
        rows1 == SelectSeq(df.rows, NotListed)
        excluded_specific_count == initial_count - Len(rows1)
        NotPattern(r) == ~matches_exclude_pattern(r["Symbol"])
        rows2 == SelectSeq(rows1, NotPattern)
        excluded_pattern_count == initial_count - Len(SelectSeq(df.rows, NotPattern))
    IN  [df |-> [cols |-> df.cols,
                 rows |-> [i \in 1..Len(rows2) |-> CleanRow(rows2[i])]],
         counts |-> [initial |-> initial_count,
                     excluded_specific |-> excluded_specific_count,
                     excluded_pattern |-> excluded_pattern_count,
                     final |-> Len(rows2)]]

\* _clean_data: the frame filtered and normalised, with its counters
clean_data(df) ==
    LET initial_count == Len(df.rows)
        NotListed(r) == r["Symbol"] \notin excluded_symbols
        rows1 == SelectSeq(df.rows, NotListed)
        excluded_specific_count == initial_count - Len(rows1)
        NotPattern(r) == ~matches_exclude_pattern(r["Symbol"])
        rows2 == SelectSeq(rows1, NotPattern)
        excluded_pattern_count == (initial_count - excluded_specific_count) - Len(rows2)
    IN  [df |-> [cols |-> df.cols,
                 rows |-> [i \in 1..Len(rows2) |-> CleanRow(rows2[i])]],
         counts |-> [initial |-> initial_count,
                     excluded_specific |-> excluded_specific_count,
                     excluded_pattern |-> excluded_pattern_count,
                     final |-> Len(rows2)]]

NoCounts == [initial |-> 0, excluded_specific |-> 0, excluded_pattern |-> 0, final |-> 0]

\* frame[[...]] raises KeyError unless the frame has every column named
HasColumns(df, names) == names \subseteq df.cols

\* merge_data: [raised, df, counts]
merge_data(calyx, tradingview, ngx) ==
    IF ~HasColumns(tradingview, {"Symbol", "P/E"})
    THEN [raised |-> TRUE, df |-> EmptyFrame, counts |-> NoCounts]
    ELSE IF ~HasColumns(ngx, {"Symbol", "Market cap", "Sector"})
    THEN [raised |-> TRUE, df |-> EmptyFrame, counts |-> NoCounts]
    ELSE LET m1 == LeftJoin(calyx.rows, tradingview.rows, {"P/E"})
             m2 == LeftJoin(m1, ngx.rows, {"Market cap", "Sector"})
             cleaned == clean_data([cols |-> calyx.cols \cup {"P/E", "Market cap", "Sector"},
                                    rows |-> m2])
         IN  [raised |-> FALSE, df |-> cleaned.df, counts |-> cleaned.counts]

----------------------------------------------------------------------------
(* PDFDataExtractor *)

UpperLetters ==
    {"A", "B", "C", "D", "E", "F", "G", "H", "I", "J", "K", "L", "M",
     "N", "O", "P", "Q", "R", "S", "T", "U", "V", "W", "X", "Y", "Z"}
Letters == UpperLetters \cup {LowerChar(c) : c \in UpperLetters}

\* str.isdigit(), str.isalnum(), str.replace(c, '') for each c of chars
isdigit(s) == s # <<>> /\ \A i \in 1..Len(s) : s[i] \in Digits
isalnum(s) == s # <<>> /\ \A i \in 1..Len(s) : s[i] \in Letters \cup Digits
Without(s, chars) == LET Keep(c) == c \notin chars IN SelectSeq(s, Keep)

\* str.strip()
RECURSIVE lstrip(_)
lstrip(s) == IF s # <<>> /\ Head(s) \in Whitespace THEN lstrip(Tail(s)) ELSE s
RECURSIVE rstrip(_)
rstrip(s) ==
    IF s # <<>> /\ s[Len(s)] \in Whitespace THEN rstrip(SubSeq(s, 1, Len(s) - 1)) ELSE s
strip(s) == rstrip(lstrip(s))

\* str.split(): the tokens between runs of whitespace
RECURSIVE split(_)
split(s) ==
    LET t == lstrip(s) IN
    IF t = <<>> THEN <<>>
    ELSE LET n == IF \E i \in 1..Len(t) : t[i] \in Whitespace
                  THEN CHOOSE i \in 1..Len(t) :
                          /\ t[i] \in Whitespace
                          /\ \A j \in 1..(i - 1) : t[j] \notin Whitespace
                  ELSE Len(t) + 1
         IN  <<SubSeq(t, 1, n - 1)>> \o split(SubSeq(t, n, Len(t)))

\* len(columns): the fields of a report row
NumFields == 13

\* the test of the normal row processing on the first cell
accepts_first_col(first_col) ==
    /\ first_col # <<>>
    /\ \/ isdigit(first_col)
       \/ Len(first_col) <= 15 /\ isalnum(Without(first_col, {".", "-", "/"}))
       \/ isdigit(Without(first_col, {".", "-", ","}))
       \/ Len(first_col) <= 10 /\ \E i \in 1..Len(first_col) : first_col[i] \in Letters \cup Digits

\* the body of `for row in table`: what the row adds to all_data.  A cell
\* that is None or '' is <<>>.
accept_row(row) ==
    IF row = <<>> \/ row[1] = <<>> THEN <<>>
    ELSE LET first_col == strip(row[1])
             parts == split(first_col)
             rest_empty == \A i \in 2..Len(row) : strip(row[i]) = <<>>
         IN  IF /\ first_col # <<>>
                /\ \E i \in 1..Len(first_col) : first_col[i] = " "
                /\ isdigit(parts[1])
                /\ rest_empty
                /\ Len(parts) >= NumFields
             THEN << SubSeq(parts, 1, NumFields) >>
             ELSE IF accepts_first_col(first_col) THEN <<row>> ELSE <<>>

RECURSIVE extract_table(_)
extract_table(rows) ==
    IF rows = <<>> THEN <<>> ELSE accept_row(Head(rows)) \o extract_table(Tail(rows))

\* the cleaning of a numeric column: commas removed, '' to NaN, then
\* pd.to_numeric(errors='coerce')
to_numeric(cell) ==
    LET v == Without(cell, {","})
        body == IF v # <<>> /\ Head(v) = "-" THEN Tail(v) ELSE v
        Dots == {i \in 1..Len(body) : body[i] = "."}
    IN  IF /\ Cardinality(Dots) <= 1
           /\ isdigit(Without(body, {"."}))
        THEN v ELSE NaN

\* the columns the model follows of the thirteen: SN, Symbol and Close; Date
\* is stamped on every row
frame_row(fields) == ReportRow(fields[1], fields[2], to_numeric(fields[7]))

\* a table row of the report, cell by cell: SN, Symbol, PClose, Open, High,
\* Low, Close, Change, %_Change, Deals, Volume, Value, VWAP
TableRow(sn, sym, close) ==
    <<sn, sym, close, close, close, close, close, <<"0">>, <<"0">>,
      <<"1">>, <<"9">>, <<"4", "5">>, close>>
BlankRow == [i \in 1..NumFields |-> <<>>]

----------------------------------------------------------------------------
(* The fetchers *)

\* _parse_tradingview_data: pd.DataFrame(rows) has no column when rows is empty
parse_tradingview_data(data) ==
    IF data = <<>> THEN EmptyFrame ELSE [cols |-> TVCols, rows |-> data]

\* DataFrame.sort_index() after set_index("id")
RECURSIVE SortById(_)
SortById(cs) ==
    IF cs = <<>> THEN <<>>
    ELSE LET m == CHOOSE i \in 1..Len(cs) :
                     /\ \A j \in 1..Len(cs) : cs[i].id <= cs[j].id
                     /\ \A j \in 1..(i - 1) : cs[j].id # cs[i].id
             rest == [k \in 1..(Len(cs) - 1) |-> IF k < m THEN cs[k] ELSE cs[k + 1]]
         IN  <<cs[m]>> \o SortById(rest)

\* _process_ngn_data: id becomes the sorted index (kept with the row, not
\* among the columns); symbol, marketCap and sector are renamed
process_ngn_data(companies) ==
    LET sorted == SortById(companies)
    IN  [cols |-> NgxCols,
         rows |-> [i \in 1..Len(sorted) |->
                     ("id" :> sorted[i].id) @@
                     ("Symbol" :> sorted[i].symbol) @@ ("Market cap" :> sorted[i].marketCap)
                       @@ ("Sector" :> sorted[i].sector) @@ ("price" :> sorted[i].price)]]

----------------------------------------------------------------------------
(* The documents of a pipeline run *)

\* the symbols of the report
PipeSymbols == {DANGCEM, VETBANK}
PipeReportRows == {ReportRow(<<"1">>, s, <<"5">>) : s \in PipeSymbols}
\* the documents of a pipeline run: up to MaxPipeRows report rows, or a table
\* with nothing but a blank row
PipeTableRows == {TableRow(<<"1">>, s, <<"5">>) : s \in PipeSymbols}
PipeDocuments == SeqsUpTo(PipeTableRows, MaxPipeRows) \cup {<<BlankRow>>}

----------------------------------------------------------------------------
(* FinancialDataAutomation._find_any_pdf_in_folder *)

PollTimeout == 60
PollSleep == 2

\* one round of the polling loop; the file it accepts is complete, and what
\* the document holds is settled from then on
PollAcceptListed(f) == dir[f] # "absent"
PollAccept(f) == dir[f] = "nonempty"

find_any_pdf_round ==
    /\ pc = "poll"
    /\ elapsed < PollTimeout
    /\ IF \E f \in listdir(dir) : EndsWith(f, DotCrdownload)
       THEN /\ elapsed' = elapsed + PollSleep
            /\ UNCHANGED <<pc, pdf_path, pdf_table>>
       ELSE LET pdf_files == {f \in listdir(dir) : EndsWith(Lower(f), DotPdf)} IN
            IF pdf_files = {}
            THEN /\ elapsed' = elapsed + PollSleep
                 /\ UNCHANGED <<pc, pdf_path, pdf_table>>
            ELSE \E selected_pdf \in pdf_files :
                    IF PollAccept(selected_pdf)
                    THEN /\ pdf_path' = selected_pdf
                         /\ pc' = "extract"
                         /\ elapsed' = 0
                         /\ pdf_table' \in PipeDocuments
                    ELSE /\ elapsed' = elapsed + PollSleep
                         /\ UNCHANGED <<pc, pdf_path, pdf_table>>
    /\ UNCHANGED <<result, raisedBy, optDownload, optUpload, ops>>
    /\ UNCHANGED <<fsVars, dlVars, dataVars, ngnVars, dbVars>>
    /\ UNCHANGED tvVars
    /\ UNCHANGED all_data

\* `if not pdf_path: return False` in run_full_pipeline
NoPdfContinues(path) == FALSE
NoPdfHalts(path) == path = None

\* the loop condition fails: _find_any_pdf_in_folder returns None and
\* run_full_pipeline returns False
find_any_pdf_timeout ==
    /\ pc = "poll"
    /\ elapsed >= PollTimeout
    /\ pdf_path' = None
    /\ IF NoPdfHalts(None)
       THEN result' = "False" /\ pc' = "done"
       ELSE pc' = "extract" /\ UNCHANGED result
    /\ UNCHANGED <<raisedBy, optDownload, optUpload, ops, elapsed>>
    /\ UNCHANGED <<fsVars, dlVars, dataVars, ngnVars, dbVars>>
    /\ UNCHANGED tvVars
    /\ UNCHANGED pdfVars

----------------------------------------------------------------------------
(* FinancialDataAutomation.run_full_pipeline: Steps 2 to 6 *)

\* in a pipeline run each source names DANGCEM once, in its first record, and
\* ZENITH, which the report does not hold, in the others; sources that repeat
\* a symbol of the report are the inputs of SpecMerge
PipeQuote(i) == QuoteRow(IF i = 1 THEN DANGCEM ELSE ZENITH, <<"9">>)
PipeQuoteData == {[i \in 1..n |-> PipeQuote(i)] : n \in 0..MaxPipeRows}
\* the quotes source: it answers the one request with a response of up to
\* MaxPipeRows rows, or it is a paged source whose pages hold QuotePageSize
\* rows and which serves two full pages and a shorter last one
QuotePageSize == MaxPipeRows + 1
QuotePage(k, n) == [i \in 1..n |-> PipeQuote((k - 1) * QuotePageSize + i)]
PagedQuoteFeed ==
    <<QuotePage(1, QuotePageSize), QuotePage(2, QuotePageSize), QuotePage(3, QuotePageSize - 1)>>
QuoteFeeds == {<<data>> : data \in PipeQuoteData} \cup {PagedQuoteFeed}
\* the directory is served by market capitalisation, largest first, and its
\* ids run the other way
PipeCompany(p, k) ==
    Company(MaxPages * MaxPageLen + 1 - ((p - 1) * MaxPageLen + k),
            IF p = 1 /\ k = 1 THEN DANGCEM ELSE ZENITH, <<"7">>, <<"c">>)
\* a page of the directory is empty or holds MaxPageLen records, fewer than
\* `limit` in either case
PipeCompanies(p) == {[k \in 1..n |-> PipeCompany(p, k)] : n \in {0, MaxPageLen}}
StatsFrame == [cols |-> {"asi", "date"}, rows |-> << ("asi" :> <<"1">>) @@ ("date" :> ReportDate) >>]

\* the except clause of run_full_pipeline
PipelineExceptGoesOn(op) ==
    /\ raisedBy' = op
    /\ result' = IF op = "fetch_market_stats" THEN result ELSE "False"
    /\ pc' = IF op = "fetch_market_stats" THEN "upload_data" ELSE "done"
PipelineExcept(op) ==
    /\ raisedBy' = op
    /\ result' = "False"
    /\ pc' = "done"

\* Step 1: download_report is called when the flag is set
run_start ==
    /\ pc = "start"
    /\ IF optDownload
       THEN /\ pc' = "dl_setup"
            /\ ops' = Append(ops, "download_report")
            /\ UNCHANGED elapsed
       ELSE /\ pc' = "poll"
            /\ ops' = Append(ops, "find_pdf")
            /\ elapsed' = 0
    /\ UNCHANGED <<result, raisedBy, optDownload, optUpload, pdf_path>>
    /\ UNCHANGED <<fsVars, dlVars, dataVars, ngnVars, dbVars>>
    /\ UNCHANGED tvVars
    /\ UNCHANGED pdfVars

\* download_report has returned; a failure is only logged, and Step 2 starts.
\* The frame of download_report is gone, `success` (dlResult) stays.
AfterDownloadAbort(success) == IF success = "True" THEN "poll" ELSE "abort"
AfterDownload(success) == "poll"

download_report_return ==
    /\ pc = "dl_return"
    /\ IF AfterDownload(dlResult) = "poll"
       THEN /\ pc' = "poll"
            /\ ops' = Append(ops, "find_pdf")
            /\ elapsed' = 0
            /\ UNCHANGED <<result, raisedBy>>
       ELSE /\ PipelineExcept("download_report")
            /\ UNCHANGED <<ops, elapsed>>
    /\ driver' = FALSE
    /\ wait' = FALSE
    /\ steps' = <<>>
    /\ teardown' = <<>>
    /\ dlRaised' = "none"
    /\ dirAtCheck' = EmptyDir
    /\ UNCHANGED <<optDownload, optUpload, pdf_path, browser, dlResult>>
    /\ UNCHANGED <<fsVars, dataVars, ngnVars, dbVars>>
    /\ UNCHANGED tvVars
    /\ UNCHANGED pdfVars

\* Step 2: extract_nge_data.  The document cannot be read: the exception is
\* logged and re-raised.  Otherwise every row of its tables goes through the
\* row loop and the frame is built from the rows accepted.
extract_nge_data ==
    /\ pc = "extract"
    /\ ops' = Append(ops, "extract")
    /\ \/ /\ PipelineExcept("extract")
          /\ UNCHANGED <<df_calyx, all_data>>
       \/ /\ all_data' = extract_table(pdf_table)
          /\ df_calyx' = [cols |-> CalyxCols,
                          rows |-> [i \in 1..Len(all_data') |-> frame_row(all_data'[i])]]
          /\ pc' = "fetch_tv"
          /\ UNCHANGED <<result, raisedBy>>
    /\ UNCHANGED <<optDownload, optUpload>>
    /\ UNCHANGED <<df_tradingview, df_ngx, df_final, df_market_stats, counts>>
    /\ UNCHANGED <<fsVars, dlVars, pollVars, ngnVars, dbVars>>
    /\ UNCHANGED tvVars
    /\ UNCHANGED pdf_table

\* Step 3a: TradingViewDataFetcher.fetch_data: one POST, answered with the
\* first page of the source; any exception is logged and re-raised
fetch_data ==
    /\ pc = "fetch_tv"
    /\ ops' = Append(ops, "fetch_data")
    /\ tv_posts' = tv_posts + 1
    /\ \/ /\ PipelineExcept("fetch_data")
          /\ UNCHANGED <<df_tradingview, page, all_companies, requests, paused, quote_feed>>
       \/ /\ \E feed \in QuoteFeeds :
                /\ quote_feed' = feed
                /\ df_tradingview' = parse_tradingview_data(Head(feed))
          /\ pc' = "fetch_ngx"
          /\ page' = 1
          /\ all_companies' = <<>>
          /\ requests' = <<>>
          /\ paused' = FALSE
          /\ UNCHANGED <<result, raisedBy>>
    /\ UNCHANGED <<optDownload, optUpload>>
    /\ UNCHANGED <<df_calyx, df_ngx, df_final, df_market_stats, counts>>
    /\ UNCHANGED <<fsVars, dlVars, pollVars, dbVars>>
    /\ UNCHANGED pdfVars

\* `limit` of fetch_all_companies
limit == 100

\* `if not pagination.get("hasNext"): break`, the only test made on a
\* non-empty page
stops_afterIgnoresHasNext(companies, hasNext) == FALSE
stops_afterShortPage(companies, hasNext) == ~hasNext \/ Len(companies) < limit
stops_after(companies, hasNext) == ~hasNext

\* where the loop goes after `page += 1`: to time.sleep(0.5)
before_next_pageNoSleep == "fetch_ngx"
before_next_page == "ngx_sleep"

\* what `break` in the except clauses leaves in all_companies
after_request_errorDiscards(acc) == <<>>
after_request_error(acc) == acc

RequestLog(p, answer, n, hasNext) ==
    [page |-> p, answer |-> answer, records |-> n, hasNext |-> hasNext]

\* Step 3b: NGNMarketDataFetcher.fetch_all_companies, one turn of its
\* `while True` loop: a transport or JSON error breaks; a payload that is no
\* object raises out of the method; an empty page breaks; a falsy hasNext
\* breaks; otherwise page += 1.  The loop has no bound of its own: past
\* MaxPages the model follows only the source that goes on answering with
\* records and hasNext, and no longer tracks the page number and the records.
fetch_all_companies_page ==
    /\ pc = "fetch_ngx"
    /\ ops' = IF page = 1 THEN Append(ops, "fetch_all_companies") ELSE ops
    /\ IF page > MaxPages
       THEN /\ pc' = before_next_page
            /\ UNCHANGED <<page, all_companies, requests, result, raisedBy>>
       ELSE \/ /\ requests' = Append(requests, RequestLog(page, "error", 0, FALSE))
               /\ all_companies' = after_request_error(all_companies)
               /\ pc' = "ngx_finish"
               /\ UNCHANGED <<page, result, raisedBy>>
            \/ /\ requests' = Append(requests, RequestLog(page, "no_object", 0, FALSE))
               /\ PipelineExcept("fetch_all_companies")
               /\ UNCHANGED <<page, all_companies>>
            \/ \E companies \in PipeCompanies(page), hasNext \in BOOLEAN :
                  /\ requests' = Append(requests,
                                        RequestLog(page, "page", Len(companies), hasNext))
                  /\ IF companies = <<>>
                     THEN /\ pc' = "ngx_finish"
                          /\ UNCHANGED <<page, all_companies, result, raisedBy>>
                     ELSE /\ all_companies' = all_companies \o companies
                          /\ IF stops_after(companies, hasNext)
                             THEN pc' = "ngx_finish" /\ UNCHANGED page
                             ELSE page' = page + 1 /\ pc' = before_next_page
                          /\ UNCHANGED <<result, raisedBy>>
    /\ paused' = FALSE
    /\ UNCHANGED <<optDownload, optUpload>>
    /\ UNCHANGED <<fsVars, dlVars, pollVars, dataVars, dbVars>>
    /\ UNCHANGED tvVars
    /\ UNCHANGED pdfVars

\* time.sleep(0.5) before the next page request
fetch_all_companies_sleep ==
    /\ pc = "ngx_sleep"
    /\ pc' = "fetch_ngx"
    /\ paused' = TRUE
    /\ UNCHANGED <<page, all_companies, requests>>
    /\ UNCHANGED <<result, raisedBy, optDownload, optUpload, ops>>
    /\ UNCHANGED <<fsVars, dlVars, pollVars, dataVars, dbVars>>
    /\ UNCHANGED tvVars
    /\ UNCHANGED pdfVars

\* fetch_all_companies after its loop
fetch_all_companies_finish ==
    /\ pc = "ngx_finish"
    /\ df_ngx' = IF all_companies = <<>> THEN EmptyFrame
                 ELSE process_ngn_data(all_companies)
    /\ pc' = "merge"
    /\ UNCHANGED <<result, raisedBy, optDownload, optUpload, ops>>
    /\ UNCHANGED <<df_calyx, df_tradingview, df_final, df_market_stats, counts>>
    /\ UNCHANGED <<fsVars, dlVars, pollVars, ngnVars, dbVars>>
    /\ UNCHANGED tvVars
    /\ UNCHANGED pdfVars

\* Step 4: merge_data
run_merge_data ==
    /\ pc = "merge"
    /\ ops' = Append(ops, "merge_data")
    /\ LET m == merge_data(df_calyx, df_tradingview, df_ngx) IN
          IF m.raised
          THEN /\ PipelineExcept("merge_data")
               /\ UNCHANGED <<df_final, counts>>
          ELSE /\ df_final' = m.df
               /\ counts' = m.counts
               /\ pc' = "fetch_stats"
               /\ UNCHANGED <<result, raisedBy>>
    /\ UNCHANGED <<optDownload, optUpload>>
    /\ UNCHANGED <<df_calyx, df_tradingview, df_ngx, df_market_stats>>
    /\ UNCHANGED <<fsVars, dlVars, pollVars, ngnVars, dbVars>>
    /\ UNCHANGED tvVars
    /\ UNCHANGED pdfVars

\* Step 5: fetch_market_stats raises (transport, decoding, success falsy) or
\* returns the snapshot
fetch_market_stats ==
    /\ pc = "fetch_stats"
    /\ ops' = Append(ops, "fetch_market_stats")
    /\ \/ /\ PipelineExcept("fetch_market_stats")
          /\ UNCHANGED df_market_stats
       \/ /\ df_market_stats' = StatsFrame
          /\ pc' = IF optUpload THEN "upload_data" ELSE "cleanup"
          /\ UNCHANGED <<result, raisedBy>>
    /\ UNCHANGED <<optDownload, optUpload>>
    /\ UNCHANGED <<df_calyx, df_tradingview, df_ngx, df_final, counts>>
    /\ UNCHANGED <<fsVars, dlVars, pollVars, ngnVars, dbVars>>
    /\ UNCHANGED tvVars
    /\ UNCHANGED pdfVars

----------------------------------------------------------------------------
(* DatabaseManager *)

\* What the store answers to an insert: "ok", or an error.  "duplicate" is
\* the uniqueness violation (IntegrityError 1062, Duplicate entry),
\* "integrity" a violation of another integrity constraint, "other" any
\* other failure.
StoreFaults == {"integrity", "other"}

Keys(rows) == {rows[i]["Symbol"] : i \in 1..Len(rows)}

\* the rows violate the uniqueness constraint of the destination
Conflict(rows, tbl) ==
    \/ Keys(rows) \cap tbl # {}
    \/ \E i, j \in 1..Len(rows) : i # j /\ rows[i]["Symbol"] = rows[j]["Symbol"]

InsertAnswers(rows, tbl) ==
    (IF Conflict(rows, tbl) THEN {"duplicate"} ELSE {"ok"}) \cup StoreFaults

\* 'duplicate' in error_msg or 'integrity' in error_msg or '1062' in str(e)
IsDuplicateErrorStrict(answer) == answer = "duplicate"
IsDuplicateError(answer) == answer \in {"duplicate", "integrity"}

LogEntry(kind, at, answer) == [kind |-> kind, at |-> at, answer |-> answer]

\* the outer `except Exception` of upload_data logs and does not re-raise
OuterExceptReraises(answer) == FALSE
OuterExceptSwallows(answer) == TRUE

\* an exception reached the outer except clause of upload_data
UploadFailed(answer) ==
    IF OuterExceptSwallows(answer)
    THEN /\ pc' = "upload_stats"
         /\ UNCHANGED <<result, raisedBy, udRaised>>
    ELSE /\ udRaised' = TRUE
         /\ PipelineExcept("upload_data")

\* DatabaseManager.__init__: self.engine = None
DatabaseManager_initConnects == "engine"
DatabaseManager_init == "None"

\* Step 6a: upload_data, the lazy connect
upload_data_connect ==
    /\ pc = "upload_data"
    /\ ops' = Append(ops, "upload_data")
    /\ IF engine = "None"
       THEN \/ /\ engine' = "engine"
               /\ storeLog' = Append(storeLog, LogEntry("connect", 0, "ok"))
               /\ pc' = "ud_bulk"
               /\ UNCHANGED <<result, raisedBy, udRaised>>
            \/ /\ storeLog' = Append(storeLog, LogEntry("connect", 0, "other"))
               /\ UploadFailed("other")
               /\ UNCHANGED engine
       ELSE /\ pc' = "ud_bulk"
            /\ UNCHANGED <<engine, storeLog, result, raisedBy, udRaised>>
    /\ UNCHANGED <<optDownload, optUpload>>
    /\ UNCHANGED <<table, uploaded, skipped, errors, idx>>
    /\ UNCHANGED <<fsVars, dlVars, pollVars, dataVars, ngnVars>>
    /\ UNCHANGED tvVars
    /\ UNCHANGED pdfVars

\* upload_data, the bulk append: success returns; a duplicate error starts
\* the row-by-row upload; any other error is re-raised to the outer except
upload_data_bulk ==
    /\ pc = "ud_bulk"
    /\ \E answer \in InsertAnswers(df_final.rows, table) :
          /\ storeLog' = Append(storeLog, LogEntry("bulk", 0, answer))
          /\ IF answer = "ok"
             THEN /\ table' = table \cup Keys(df_final.rows)
                  /\ pc' = "upload_stats"
                  /\ UNCHANGED <<result, raisedBy, udRaised, uploaded, skipped, errors, idx>>
             ELSE IF IsDuplicateError(answer)
             THEN /\ pc' = "ud_rows"
                  /\ uploaded' = 0
                  /\ skipped' = 0
                  /\ errors' = 0
                  /\ idx' = 1
                  /\ UNCHANGED <<result, raisedBy, udRaised, table>>
             ELSE /\ UploadFailed(answer)
                  /\ UNCHANGED <<table, uploaded, skipped, errors, idx>>
    /\ UNCHANGED <<optDownload, optUpload, ops, engine>>
    /\ UNCHANGED <<fsVars, dlVars, pollVars, dataVars, ngnVars>>
    /\ UNCHANGED tvVars
    /\ UNCHANGED pdfVars

\* _upload_with_duplicate_skip, one row
upload_with_duplicate_skip_row ==
    /\ pc = "ud_rows"
    /\ idx <= Len(df_final.rows)
    /\ \E answer \in InsertAnswers(<<df_final.rows[idx]>>, table) :
          /\ storeLog' = Append(storeLog, LogEntry("row", idx, answer))
          /\ IF answer = "ok"
             THEN /\ table' = table \cup {df_final.rows[idx]["Symbol"]}
                  /\ uploaded' = uploaded + 1
                  /\ UNCHANGED <<skipped, errors>>
             ELSE IF IsDuplicateError(answer)
             THEN /\ skipped' = skipped + 1
                  /\ UNCHANGED <<table, uploaded, errors>>
             ELSE /\ errors' = errors + 1
                  /\ UNCHANGED <<table, uploaded, skipped>>
    /\ idx' = idx + 1
    /\ UNCHANGED <<plVars, engine, udRaised>>
    /\ UNCHANGED <<fsVars, dlVars, pollVars, dataVars, ngnVars>>
    /\ UNCHANGED tvVars
    /\ UNCHANGED pdfVars

\* _upload_with_duplicate_skip after its loop: upload_data returns
upload_with_duplicate_skip_done ==
    /\ pc = "ud_rows"
    /\ idx > Len(df_final.rows)
    /\ pc' = "upload_stats"
    /\ UNCHANGED <<result, raisedBy, optDownload, optUpload, ops>>
    /\ UNCHANGED <<fsVars, dlVars, pollVars, dataVars, ngnVars, dbVars>>
    /\ UNCHANGED tvVars
    /\ UNCHANGED pdfVars

\* The attributes of a DatabaseManager instance.  upload_market_stats is
\* defined at module level, after the class body, so it is no attribute.
DatabaseManagerAttrs ==
    {"config", "logger", "engine", "connect", "upload_data", "_upload_with_duplicate_skip"}

\* Step 6b: self.db_manager.upload_market_stats(df_market_stats): the
\* attribute lookup raises AttributeError into the except clause of
\* run_full_pipeline
call_upload_market_stats ==
    /\ pc = "upload_stats"
    /\ ops' = Append(ops, "upload_market_stats")
    /\ IF "upload_market_stats" \in DatabaseManagerAttrs
       THEN pc' = "cleanup" /\ UNCHANGED <<result, raisedBy>>
       ELSE PipelineExcept("upload_market_stats")
    /\ UNCHANGED <<optDownload, optUpload>>
    /\ UNCHANGED <<fsVars, dlVars, pollVars, dataVars, ngnVars, dbVars>>
    /\ UNCHANGED tvVars
    /\ UNCHANGED pdfVars

\* Step 7: _cleanup_folio_folder removes the listed files one by one; an
\* os.remove that raises ends the loop and is swallowed, leaving `keep`.
\* Then run_full_pipeline returns True.
cleanup_folio_folder ==
    /\ pc = "cleanup"
    /\ ops' = Append(ops, "cleanup")
    /\ \E keep \in SUBSET listdir(dir) :
          dir' = [f \in FileNames |-> IF f \in keep THEN dir[f] ELSE "absent"]
    /\ result' = "True"
    /\ pc' = "done"
    /\ UNCHANGED <<raisedBy, optDownload, optUpload>>
    /\ UNCHANGED <<dlVars, pollVars, dataVars, ngnVars, dbVars>>
    /\ UNCHANGED tvVars
    /\ UNCHANGED pdfVars

----------------------------------------------------------------------------
(* The pipeline run *)

\* the keys the destination may hold before the run
PipeTables == SUBSET {DANGCEM}

InitCommon ==
    /\ result = "none"
    /\ all_data = <<>>
    /\ raisedBy = "none"
    /\ browser = "none"
    /\ driver = FALSE
    /\ wait = FALSE
    /\ steps = <<>>
    /\ dlRaised = "none"
    /\ dlResult = "none"
    /\ dirAtCheck = EmptyDir
    /\ teardown = <<>>
    /\ elapsed = 0
    /\ counts = NoCounts
    /\ page = 1
    /\ all_companies = <<>>
    /\ requests = <<>>
    /\ paused = FALSE
    /\ engine = DatabaseManager_init
    /\ uploaded = 0
    /\ skipped = 0
    /\ errors = 0
    /\ idx = 1
    /\ storeLog = <<>>
    /\ udRaised = FALSE

Init ==
    /\ InitCommon
    /\ pdf_table = <<>>
    /\ pc = "start"
    /\ ops = <<>>
    /\ dir = EmptyDir
    /\ pdf_path = None
    /\ df_market_stats = EmptyFrame
    /\ optDownload \in BOOLEAN
    /\ optUpload \in BOOLEAN
    /\ df_calyx = EmptyFrame
    /\ df_tradingview = EmptyFrame
    /\ df_ngx = EmptyFrame
    /\ df_final = EmptyFrame
    /\ table \in PipeTables
    /\ quote_feed = <<>>
    /\ tv_posts = 0

\* the steps of the program itself
ProgramNext ==
    \/ run_start
    \/ setup_chrome_driver
    \/ login
    \/ navigate_to_reports
    \/ generate_report
    \/ export_report
    \/ export_confirm
    \/ download_report_except
    \/ download_report_finally
    \/ logout_graceful
    \/ logout_fallback
    \/ driver_quit
    \/ download_report_return
    \/ find_any_pdf_round
    \/ find_any_pdf_timeout
    \/ extract_nge_data
    \/ fetch_data
    \/ fetch_all_companies_page
    \/ fetch_all_companies_sleep
    \/ fetch_all_companies_finish
    \/ run_merge_data
    \/ fetch_market_stats
    \/ upload_data_connect
    \/ upload_data_bulk
    \/ upload_with_duplicate_skip_row
    \/ upload_with_duplicate_skip_done
    \/ call_upload_market_stats
    \/ cleanup_folio_folder

\* the program, and the environment writing to the download directory
Next ==
    \/ EnvFileChange
    \/ ProgramNext

Spec == Init /\ [][Next]_vars

----------------------------------------------------------------------------
(* fetch_all_companies on its own: the run stands before Step 3b, with the   *)
(* report extracted and the quotes fetched.                                  *)

InitNgn ==
    /\ InitCommon
    /\ pdf_table = <<>>
    /\ pc = "fetch_ngx"
    /\ optDownload = FALSE
    /\ optUpload \in BOOLEAN
    /\ ops = <<"find_pdf", "extract", "fetch_data">>
    /\ dir = [EmptyDir EXCEPT ![ReportPdf] = "nonempty"]
    /\ pdf_path = ReportPdf
    /\ df_market_stats = EmptyFrame
    /\ \E rows \in SeqsUpTo(PipeReportRows, MaxPipeRows) :
          df_calyx = [cols |-> CalyxCols, rows |-> rows]
    /\ quote_feed \in QuoteFeeds
    /\ tv_posts = 1
    /\ df_tradingview = parse_tradingview_data(Head(quote_feed))
    /\ df_ngx = EmptyFrame
    /\ df_final = EmptyFrame
    /\ table \in PipeTables

NextNgn ==
    \/ fetch_all_companies_page
    \/ fetch_all_companies_sleep
    \/ fetch_all_companies_finish

\* the interpreter runs the loop on: a step of it that can be taken is taken
SpecNgn == InitNgn /\ [][NextNgn]_vars /\ WF_vars(NextNgn)

----------------------------------------------------------------------------
(* merge_data on its own: the run stands before Step 4 (acquisition skipped,  *)
(* the report found and extracted, both fetches done) with frames drawn from *)
(* bounded sets.                                                             *)

\* rows of each frame handed to merge_data
MaxMergeRows == 2

\* a plain ticker, a listed symbol the pattern does not match, a symbol only
\* the pattern matches, a listed symbol the pattern matches too, and a null
MergeSymbols == {DANGCEM, VETBANK, GOLD1, SIAMLETF40, NaN}
MergeReportRows == {ReportRow(<<"1">>, s, <<"5">>) : s \in MergeSymbols}
MergeQuoteRows ==
    {QuoteRow(DANGCEM, <<"9">>), QuoteRow(DANGCEM, <<"8">>), QuoteRow(GOLD1, <<"9">>)}
MergeCompanies ==
    {Company(1, DANGCEM, <<"7">>, <<"c">>), Company(2, DANGCEM, <<"6">>, <<" ">>),
     Company(3, VETBANK, <<"7">>, <<"c">>)}

FoundDir == [EmptyDir EXCEPT ![ReportPdf] = "nonempty"]

InitMerge ==
    /\ InitCommon
    /\ pdf_table = <<>>
    /\ pc = "merge"
    /\ optDownload = FALSE
    /\ optUpload \in BOOLEAN
    /\ ops = <<"find_pdf", "extract", "fetch_data", "fetch_all_companies">>
    /\ dir = FoundDir
    /\ pdf_path = ReportPdf
    /\ df_market_stats = EmptyFrame
    /\ \E rows \in SeqsUpTo(MergeReportRows, MaxMergeRows) :
          df_calyx = [cols |-> CalyxCols, rows |-> rows]
    /\ \E data \in SeqsUpTo(MergeQuoteRows, MaxMergeRows) :
          /\ quote_feed = <<data>>
          /\ df_tradingview = parse_tradingview_data(data)
    /\ tv_posts = 1
    /\ \E cs \in SeqsUpTo(MergeCompanies, MaxMergeRows) :
          df_ngx = IF cs = <<>> THEN EmptyFrame ELSE process_ngn_data(cs)
    /\ df_final = EmptyFrame
    /\ table = {}

NextMerge == run_merge_data

SpecMerge == InitMerge /\ [][NextMerge]_vars

----------------------------------------------------------------------------
(* The exclusion pattern on its own: merge_data is given a report of one     *)
(* row, whose symbol is drawn from the short strings over a few characters   *)
(* and from named symbols, and sources that hold one record each.            *)

\* length of the symbols drawn character by character
MaxSymLen == 3

PatternChars == {"E", "T", "F", "e", "f", "4", "X"}
FGSUK25 == <<"F", "G", "S", "U", "K", "2", "5">>
XfgSuk == <<"X", "f", "g", "S", "u", "k">>
FGSUX == <<"F", "G", "S", "U", "X">>
PatternSymbols ==
    SeqsUpTo(PatternChars, MaxSymLen)
        \cup {DANGCEM, ZENITH, VETBANK, VETGOODS, SIAMLETF40, GOLD1, NEWGOLD,
              FGSUK25, XfgSuk, FGSUX, NaN}

InitPattern ==
    /\ InitCommon
    /\ pdf_table = <<>>
    /\ pc = "merge"
    /\ optDownload = FALSE
    /\ optUpload = FALSE
    /\ ops = <<"find_pdf", "extract", "fetch_data", "fetch_all_companies">>
    /\ dir = FoundDir
    /\ pdf_path = ReportPdf
    /\ df_market_stats = EmptyFrame
    /\ \E sym \in PatternSymbols :
          df_calyx = [cols |-> CalyxCols, rows |-> <<ReportRow(<<"1">>, sym, <<"5">>)>>]
    /\ quote_feed = << <<QuoteRow(DANGCEM, <<"9">>)>> >>
    /\ tv_posts = 1
    /\ df_tradingview = parse_tradingview_data(Head(quote_feed))
    /\ df_ngx = process_ngn_data(<<Company(1, DANGCEM, <<"7">>, <<"c">>)>>)
    /\ df_final = EmptyFrame
    /\ table = {}

NextPattern == run_merge_data

SpecPattern == InitPattern /\ [][NextPattern]_vars

----------------------------------------------------------------------------
(* upload_data on its own: the run stands before Step 6 with a merged frame  *)
(* and a destination drawn from bounded sets.                                *)

\* rows of the frame handed to upload_data
MaxSinkRows == 3

SinkSymbols == {DANGCEM, ZENITH}
FinalCols == CalyxCols \cup {"P/E", "Market cap", "Sector"}
FinalRow(sym) ==
    CleanRow(ReportRow(<<"1">>, sym, <<"5">>) @@ ("P/E" :> <<"9">>)
                @@ ("Market cap" :> NaN) @@ ("Sector" :> NaN))

InitSink ==
    /\ InitCommon
    /\ pdf_table = <<>>
    /\ pc = "upload_data"
    /\ optDownload = FALSE
    /\ optUpload = TRUE
    /\ ops = <<"find_pdf", "extract", "fetch_data", "fetch_all_companies",
               "merge_data", "fetch_market_stats">>
    /\ dir = FoundDir
    /\ pdf_path = ReportPdf
    /\ df_market_stats = StatsFrame
    /\ df_calyx = EmptyFrame
    /\ df_tradingview = EmptyFrame
    /\ df_ngx = EmptyFrame
    /\ quote_feed = <<>>
    /\ tv_posts = 1
    /\ \E syms \in SeqsUpTo(SinkSymbols, MaxSinkRows) :
          df_final = [cols |-> FinalCols, rows |-> [i \in 1..Len(syms) |-> FinalRow(syms[i])]]
    /\ table \in SUBSET SinkSymbols

NextSink ==
    \/ upload_data_connect
    \/ upload_data_bulk
    \/ upload_with_duplicate_skip_row
    \/ upload_with_duplicate_skip_done

SpecSink == InitSink /\ [][NextSink]_vars

----------------------------------------------------------------------------
(* extract_nge_data on its own: the run stands before Step 2 with a document  *)
(* found, whose table rows are drawn from a set of row shapes: a report row  *)
(* cell by cell, the header, a blank row, and report rows that the PDF       *)
(* library collapsed into the first cell, the other cells None.              *)

\* the fields of a report row, and fields beyond the thirteenth
Fields == TableRow(<<"1">>, DANGCEM, <<"5">>)
Field(i) == IF i <= NumFields THEN Fields[i] ELSE <<"8">>

\* what separates the tokens of a collapsed cell
Separators == {"space", "newline", "tab", "mixed"}
SeparatorAt(kind, i) ==
    CASE kind = "space"   -> " "
      [] kind = "newline" -> "\n"
      [] kind = "tab"     -> "\t"
      [] kind = "mixed"   -> IF i = 1 THEN " " ELSE "\n"

\* the first n fields in one string, and the row that holds them
RECURSIVE CollapsedFrom(_, _, _)
CollapsedFrom(i, n, kind) ==
    IF i > n THEN <<>>
    ELSE IF i = n THEN Field(i)
    ELSE Field(i) \o <<SeparatorAt(kind, i)>> \o CollapsedFrom(i + 1, n, kind)
CollapsedRow(n, kind) ==
    [i \in 1..NumFields |-> IF i = 1 THEN CollapsedFrom(1, n, kind) ELSE <<>>]

HeaderRow ==
    << <<"S", "N">>, <<"S", "y", "m", "b", "o", "l">>, <<"P", "C", "l", "o", "s", "e">>,
       <<"O", "p", "e", "n">>, <<"H", "i", "g", "h">>, <<"L", "o", "w">>,
       <<"C", "l", "o", "s", "e">>, <<"C", "h", "a", "n", "g", "e">>,
       <<"%", "C", "h", "a", "n", "g", "e">>, <<"D", "e", "a", "l", "s">>,
       <<"V", "o", "l", "u", "m", "e">>, <<"V", "a", "l", "u", "e">>,
       <<"V", "W", "A", "P">> >>

ExtractRows ==
    {Fields, HeaderRow, BlankRow}
      \cup {CollapsedRow(n, kind) : n \in (NumFields - 1)..(NumFields + 1), kind \in Separators}
ExtractDocuments == SeqsUpTo(ExtractRows, MaxTableRows)

InitExtract ==
    /\ InitCommon
    /\ pdf_table \in ExtractDocuments
    /\ pc = "extract"
    /\ ops = <<"find_pdf">>
    /\ optDownload = FALSE
    /\ optUpload = FALSE
    /\ dir = FoundDir
    /\ pdf_path = ReportPdf
    /\ df_market_stats = EmptyFrame
    /\ df_calyx = EmptyFrame
    /\ df_tradingview = EmptyFrame
    /\ df_ngx = EmptyFrame
    /\ df_final = EmptyFrame
    /\ quote_feed = <<>>
    /\ tv_posts = 0
    /\ table = {}

NextExtract == extract_nge_data

SpecExtract == InitExtract /\ [][NextExtract]_vars

----------------------------------------------------------------------------
(* Properties *)

InOps(op) == \E i \in 1..Len(ops) : ops[i] = op
LastOp == IF ops = <<>> THEN "none" ELSE ops[Len(ops)]

\* the positions of download_report after its try block
AfterTry == {"dl_finally", "dl_logout", "dl_fallback", "dl_quit", "dl_return"}

\* a file with a .pdf name, in either case, is listed
PdfNamed == {ReportPdf, UpperPdf}
ArtifactPresent(d) == \E f \in PdfNamed : d[f] # "absent"

\* C1: when a step of the acquisition raised, download_report returns True
\* exactly if a file with a .pdf name was in the download directory when the
\* except clause looked, False otherwise, and the exception never reaches
\* run_full_pipeline.
C1_OverrideDecidesResult ==
    /\ raisedBy # "download_report"
    /\ (dlRaised # "none" /\ pc \in AfterTry) =>
          /\ dlResult = (IF ArtifactPresent(dirAtCheck) THEN "True" ELSE "False")
          /\ result = "none"

\* an export that raised, rescued by a file named R.PDF
C1_Witness ==
    /\ pc = "dl_return"
    /\ dlRaised = "export"
    /\ dlResult = "True"
    /\ dirAtCheck[UpperPdf] = "nonempty"
    /\ dirAtCheck[ReportPdf] = "absent"

\* C2: whenever download_report returns after a browser was created, the
\* browser has been quit.
C2_SessionAlwaysReleased ==
    (pc = "dl_return" /\ browser # "none") => browser = "quit"

\* C3: when the file-presence poll gives up (returns None), the run returns
\* False at once: no extraction, no fetch, no merge and no sink operation.
C3_NoArtifactHaltsRun ==
    (InOps("find_pdf") /\ pc # "poll" /\ pdf_path = None) =>
        /\ pc = "done"
        /\ result = "False"
        /\ raisedBy = "none"
        /\ LastOp = "find_pdf"
        /\ storeLog = <<>>
        /\ engine = "None"

\* the poll gave up although an empty report file was there
C3_Witness ==
    /\ pc = "done"
    /\ result = "False"
    /\ pdf_path = None
    /\ InOps("find_pdf")
    /\ elapsed >= PollTimeout
    /\ dir[ReportPdf] = "empty"

\* C4 as claimed: after download_report returned False, extraction is never
\* started in the run.
C4_FailedDownloadAborts ==
    dlResult = "False" => ~InOps("extract")

\* C4 amended: after download_report returned False the run still polls the
\* download directory; extraction starts only with a file the poll accepted,
\* and the run ends before extraction only because the poll gave up.
C4_FailedDownloadStillPolls ==
    (dlResult = "False" /\ pc \notin AfterTry) =>
        /\ InOps("find_pdf")
        /\ raisedBy # "download_report"
        /\ InOps("extract") => pdf_path \in PdfNamed
        /\ (pc = "done" /\ ~InOps("extract")) => (pdf_path = None /\ elapsed >= PollTimeout)

\* download_report returned False, a report appeared later and was extracted
C4_Witness ==
    /\ dlResult = "False"
    /\ InOps("extract")
    /\ pdf_path = ReportPdf

\* C5: a transport or decode failure of the quotes fetch, or of the first
\* company-directory page, never makes the run fail: no such failure reaches
\* the except clause of run_full_pipeline, from the fetch or from the merge.
C5_FetchFailureNonFatal ==
    /\ raisedBy # "fetch_data"
    /\ (requests # <<>> /\ requests[1].answer = "error" /\ df_tradingview # EmptyFrame)
          => raisedBy # "merge_data"

\* the rows of the report that the cleaning pass keeps
KeptSpine ==
    LET Kept(r) == /\ r["Symbol"] \notin excluded_symbols
                   /\ ~matches_exclude_pattern(r["Symbol"])
    IN  SelectSeq(df_calyx.rows, Kept)

\* C6: when the company directory or the quotes source yielded no record,
\* the merge still succeeds and outputs every kept report row, with nulls in
\* that source's columns, and the run does not fail in the merge.
C6_EmptySourceMergeSucceeds ==
    (LastOp = "merge_data" /\ (df_ngx = EmptyFrame \/ df_tradingview = EmptyFrame)) =>
        /\ raisedBy = "none"
        /\ result # "False"
        /\ Len(df_final.rows) = Len(KeptSpine)
        /\ \A i \in 1..Len(df_final.rows) :
              /\ df_ngx = EmptyFrame =>
                    (df_final.rows[i]["Market cap"] = NaN /\ df_final.rows[i]["Sector"] = NaN)
              /\ df_tradingview = EmptyFrame => df_final.rows[i]["P/E"] = NaN

\* C7: with persistence enabled, once the record upsert was called the run
\* goes on to the snapshot upsert and returns True, whatever the store said.
C7_UploadsThenSuccess ==
    (optUpload /\ InOps("upload_data") /\ pc = "done") =>
        /\ InOps("upload_market_stats")
        /\ raisedBy = "none"
        /\ result = "True"

\* C8: no exception leaves upload_data: whatever the connect, the bulk append
\* and the single-row inserts answer, the call returns and the run reaches the
\* step after it.
C8_UploadDataNeverRaises ==
    /\ ~udRaised
    /\ raisedBy # "upload_data"
    /\ (InOps("upload_data") /\ pc = "done") => InOps("upload_market_stats")

\* the bulk append failed with a non-duplicate error and the next step is up
C8_Witness ==
    /\ pc = "upload_stats"
    /\ storeLog # <<>>
    /\ storeLog[Len(storeLog)] = LogEntry("bulk", 0, "other")

RowAnswers(a) == {i \in 1..Len(storeLog) : storeLog[i].kind = "row" /\ storeLog[i].answer = a}
BulkRejectedAsDuplicate ==
    \E i \in 1..Len(storeLog) : storeLog[i] = LogEntry("bulk", 0, "duplicate")

\* C9: the record upsert never raises, and when the bulk append was rejected
\* for a duplicate key, at the end of the row-by-row pass the three counters
\* add up to the number of input records, errors counts exactly the rows the
\* store failed for another reason, and when the store rejected rows only as
\* already existing, uploaded + skipped is the number of input records.
C9_FallbackCountsAddUp ==
    /\ ~udRaised
    /\ (pc = "upload_stats" /\ BulkRejectedAsDuplicate) =>
          /\ uploaded + skipped + errors = Len(df_final.rows)
          /\ uploaded = Cardinality(RowAnswers("ok"))
          /\ errors = Cardinality(RowAnswers("other"))
          /\ RowAnswers("other") = {} => uploaded + skipped = Len(df_final.rows)

\* three records, some new and some already stored, none failing otherwise
C9_Witness ==
    /\ pc = "upload_stats"
    /\ BulkRejectedAsDuplicate
    /\ Len(df_final.rows) = 3
    /\ uploaded >= 1
    /\ skipped >= 1
    /\ errors = 0

Distinct(rows) ==
    \A i, j \in 1..Len(rows) : i # j => rows[i]["Symbol"] # rows[j]["Symbol"]

\* C10: the merge outputs no more rows than the report frame has, and, the
\* report holding each symbol once, at most one record per symbol.
C10_MergeNeverGrows ==
    (pc = "fetch_stats" /\ LastOp = "merge_data") =>
        /\ Len(df_final.rows) <= Len(df_calyx.rows)
        /\ Distinct(df_calyx.rows) => Distinct(df_final.rows)

\* the merge has run and returned
MergeReturned == LastOp = "merge_data" /\ pc # "merge" /\ raisedBy # "merge_data"

SymbolsOf(rows) == {rows[i]["Symbol"] : i \in 1..Len(rows)}

\* row f of the output is report row r, with nulls for a source that does
\* not hold the symbol
Carries(f, r) ==
    /\ f["SN"] = r["SN"] /\ f["Symbol"] = r["Symbol"] /\ f["Close"] = r["Close"]
    /\ r["Symbol"] \notin SymbolsOf(df_tradingview.rows) => f["P/E"] = NaN
    /\ r["Symbol"] \notin SymbolsOf(df_ngx.rows) =>
          (f["Market cap"] = NaN /\ f["Sector"] = NaN)

\* C11: once merge_data was called, it has not raised, and every report row
\* the exclusions keep is in the output, whatever the quote rows and the
\* company rows hold, with nulls in the columns of a source without its symbol.
C11_SpineRowsSurvive ==
    (LastOp = "merge_data" /\ pc # "merge") =>
        /\ raisedBy # "merge_data"
        /\ \A i \in 1..Len(KeptSpine) :
              \E j \in 1..Len(df_final.rows) : Carries(df_final.rows[j], KeptSpine[i])

\* the frame _clean_data is given: the report joined with the two sources
JoinedRows ==
    LeftJoin(LeftJoin(df_calyx.rows, df_tradingview.rows, {"P/E"}),
             df_ngx.rows, {"Market cap", "Sector"})
Listed == {i \in 1..Len(JoinedRows) : JoinedRows[i]["Symbol"] \in excluded_symbols}
PatternOnly ==
    {i \in 1..Len(JoinedRows) :
        /\ JoinedRows[i]["Symbol"] \notin excluded_symbols
        /\ matches_exclude_pattern(JoinedRows[i]["Symbol"])}

\* C12: after the cleaning pass, final = initial - excluded_specific -
\* excluded_pattern, no counter is negative, initial is the number of rows
\* given, excluded_specific counts the listed rows, excluded_pattern counts
\* the rows only the pattern matches, and final is the number of rows kept.
C12_CountersAddUp ==
    MergeReturned =>
        /\ counts.final = counts.initial - counts.excluded_specific - counts.excluded_pattern
        /\ counts.initial >= 0 /\ counts.excluded_specific >= 0
        /\ counts.excluded_pattern >= 0 /\ counts.final >= 0
        /\ counts.initial = Len(JoinedRows)
        /\ counts.excluded_specific = Cardinality(Listed)
        /\ counts.excluded_pattern = Cardinality(PatternOnly)
        /\ counts.final = Len(df_final.rows)

\* a listed symbol that the pattern matches too, next to one only the pattern
\* matches: each is counted once
C12_Witness ==
    /\ MergeReturned
    /\ Len(df_calyx.rows) = 2
    /\ df_calyx.rows[1]["Symbol"] = SIAMLETF40
    /\ df_calyx.rows[2]["Symbol"] = GOLD1
    /\ counts = [initial |-> 2, excluded_specific |-> 1, excluded_pattern |-> 1, final |-> 0]

\* the symbol of a one-row report
OnlySymbol == df_calyx.rows[1]["Symbol"]

\* word w occurs in s when case is ignored
OccursIgnoringCase(s, w) ==
    \E i \in 1..(Len(s) - Len(w) + 1) :
        \A k \in 1..Len(w) : LowerChar(s[i + k - 1]) = LowerChar(w[k])

\* the symbols the pattern is said to reject
SaidRejected(s) ==
    /\ s # NaN
    /\ \/ OccursIgnoringCase(s, <<"E", "T", "F">>)
       \/ OccursIgnoringCase(s, <<"E", "F", "T">>)
       \/ OccursIgnoringCase(s, <<"F", "G", "S", "U", "K">>)
       \/ \E i \in 1..Len(s) : s[i] \in Digits

\* C13 as claimed: the pattern matches every symbol that holds ETF, EFT or
\* FGSUK in any case, or a digit, among them VETBANK, SIAMLETF40 and GOLD1,
\* and does not match DANGCEM.
C13_PatternRejectsExamples ==
    (MergeReturned /\ Len(df_calyx.rows) = 1) =>
        /\ SaidRejected(OnlySymbol) => matches_exclude_pattern(OnlySymbol)
        /\ OnlySymbol \in {VETBANK, SIAMLETF40, GOLD1} => matches_exclude_pattern(OnlySymbol)
        /\ OnlySymbol = DANGCEM => ~matches_exclude_pattern(OnlySymbol)

\* C13 amended: the pattern matches exactly the symbols that hold ETF, EFT or
\* FGSUK in any case, or a digit; a symbol off the explicit list is dropped by
\* the pattern exactly then; SIAMLETF40 and GOLD1 match, DANGCEM does not and
\* is kept, and VETBANK does not match: only the explicit list drops it.
C13_PatternRejects ==
    (MergeReturned /\ Len(df_calyx.rows) = 1) =>
        /\ matches_exclude_pattern(OnlySymbol) <=> SaidRejected(OnlySymbol)
        /\ OnlySymbol \notin excluded_symbols =>
              /\ counts.excluded_pattern = (IF SaidRejected(OnlySymbol) THEN 1 ELSE 0)
              /\ Len(df_final.rows) = (IF SaidRejected(OnlySymbol) THEN 0 ELSE 1)
        /\ OnlySymbol \in {SIAMLETF40, GOLD1} => matches_exclude_pattern(OnlySymbol)
        /\ OnlySymbol = DANGCEM =>
              (~matches_exclude_pattern(OnlySymbol) /\ Len(df_final.rows) = 1)
        /\ OnlySymbol = VETBANK =>
              /\ ~matches_exclude_pattern(OnlySymbol)
              /\ counts.excluded_specific = 1
              /\ df_final.rows = <<>>

\* a symbol off the list that holds etf in mixed case is dropped by the pattern
C13_Witness ==
    /\ MergeReturned
    /\ Len(df_calyx.rows) = 1
    /\ OnlySymbol = <<"e", "T", "f">>
    /\ counts.excluded_pattern = 1
    /\ df_final.rows = <<>>

\* the first page of a feed with fewer rows than the page size
FirstShortPage(feed) ==
    CHOOSE k \in 1..Len(feed) :
        /\ Len(feed[k]) < QuotePageSize
        /\ \A j \in 1..(k - 1) : Len(feed[j]) = QuotePageSize

RECURSIVE Concat(_)
Concat(pages) == IF pages = <<>> THEN <<>> ELSE Head(pages) \o Concat(Tail(pages))

\* C14: when fetch_data has returned, it has issued one request for every
\* page of the source up to the first page shorter than the page size, and
\* it returns the records of all these pages.
C14_QuotesStopOnShortPage ==
    (InOps("fetch_data") /\ pc # "fetch_tv" /\ raisedBy # "fetch_data") =>
        /\ tv_posts = FirstShortPage(quote_feed)
        /\ df_tradingview.rows = Concat(SubSeq(quote_feed, 1, FirstShortPage(quote_feed)))

\* fetch_all_companies is in its loop / has left its loop and returned
NgnLooping == pc \in {"fetch_ngx", "ngx_sleep"}
NgnReturned ==
    /\ InOps("fetch_all_companies")
    /\ pc \notin {"fetch_ngx", "ngx_sleep", "ngx_finish"}
    /\ raisedBy # "fetch_all_companies"

\* the records of the pages answered before request k, in page order
RECURSIVE ServedBefore(_)
ServedBefore(k) ==
    IF k <= 1 THEN <<>>
    ELSE ServedBefore(k - 1)
            \o [j \in 1..requests[k - 1].records |-> PipeCompany(k - 1, j)]

\* a non-empty page whose envelope has a falsy hasNext
LastPageAt(i) ==
    /\ requests[i].answer = "page" /\ requests[i].records > 0 /\ ~requests[i].hasNext

\* C15: the page requests are for pages 1, 2, 3, ... in order; a non-empty
\* page with a falsy hasNext is the last request and ends the loop; and when
\* that page is page 1, fetch_all_companies returns exactly its records after
\* exactly one request.
C15_StopsOnHasNextFalse ==
    /\ \A i \in 1..Len(requests) : requests[i].page = i
    /\ \A i \in 1..Len(requests) :
          LastPageAt(i) => (i = Len(requests) /\ ~NgnLooping)
    /\ (NgnReturned /\ LastPageAt(1)) =>
          /\ Len(requests) = 1
          /\ Len(df_ngx.rows) = requests[1].records

\* page 1 came full, with hasNext false: one request, its records returned
C15_Witness ==
    /\ pc = "merge"
    /\ Len(requests) = 1
    /\ requests[1] = RequestLog(1, "page", MaxPageLen, FALSE)
    /\ Len(df_ngx.rows) = MaxPageLen

\* C16: after a non-empty page of fewer than `limit` records whose hasNext is
\* true, the fetcher does not stop: the request for the next page is issued,
\* or the loop is on its way to it.
C16_ShortPageDoesNotStop ==
    \A i \in 1..Len(requests) :
        (/\ requests[i].answer = "page"
         /\ requests[i].records > 0
         /\ requests[i].records < limit
         /\ requests[i].hasNext) =>
            \/ i < Len(requests) /\ requests[i + 1].page = i + 1
            \/ i = Len(requests) /\ NgnLooping /\ page = i + 1

\* page 1 held records, fewer than `limit`, and hasNext, and page 2 was
\* requested
C16_Witness ==
    /\ Len(requests) >= 2
    /\ requests[1].answer = "page"
    /\ requests[1].records \in 1..(limit - 1)
    /\ requests[1].hasNext
    /\ requests[2].page = 2

\* the last request failed in transport or decoding
FailedAtLast == requests # <<>> /\ requests[Len(requests)].answer = "error"

SameRecord(row, c) ==
    /\ row["id"] = c.id /\ row["Symbol"] = c.symbol
    /\ row["Market cap"] = c.marketCap /\ row["Sector"] = c.sector

C18_FetchAllCompaniesReturns ==
    (pc = "fetch_ngx") ~> (pc \notin {"fetch_ngx", "ngx_sleep"})

\* extract_nge_data has been called and has come back
ExtractOver == InOps("extract") /\ pc # "extract"

\* C19: when extract_nge_data is over and the document was unreadable (the
\* call raised) or structurally empty (no row of its tables was accepted),
\* the run has returned failure and extract_nge_data is the last operation
\* it performed: no fetch, no merge, no sink operation.
C19_ExtractionFailureFatal ==
    (ExtractOver /\ (raisedBy = "extract" \/ all_data = <<>>))
        => (pc = "done" /\ result = "False" /\ LastOp = "extract")

\* the tokens of the first cell of a row, and the rows the claim is about:
\* the whole content in the first cell as whitespace-separated tokens, a
\* numeric leading token, the other cells empty, NumFields tokens or more
TokensOf(row) == split(strip(row[1]))
SaidCollapsed(row) ==
    /\ row # <<>> /\ row[1] # <<>>
    /\ Len(TokensOf(row)) >= NumFields
    /\ isdigit(TokensOf(row)[1])
    /\ \A i \in 2..Len(row) : strip(row[i]) = <<>>
SaidRecovered(row) ==
    IF SaidCollapsed(row) THEN << SubSeq(TokensOf(row), 1, NumFields) >> ELSE accept_row(row)

\* C20: when extract_nge_data has returned, every collapsed row of the
\* document (tokens separated by whitespace in the first cell, numeric
\* leading token, other cells empty, at least 13 tokens) stands in all_data
\* as its first 13 tokens in order, at its place among the rows accepted,
\* and in the frame as the row its un-collapsed form produces.
C20_CollapsedRowRecovered ==
    (ExtractOver /\ raisedBy # "extract")
        => /\ all_data = Concat([i \in 1..Len(pdf_table) |-> SaidRecovered(pdf_table[i])])
           /\ df_calyx.rows = [i \in 1..Len(all_data) |-> frame_row(all_data[i])]
           /\ \A i \in 1..Len(pdf_table) :
                 (SaidCollapsed(pdf_table[i]) /\ Len(TokensOf(pdf_table[i])) = NumFields)
                     => SaidRecovered(pdf_table[i]) = accept_row(TokensOf(pdf_table[i]))

\* C21: when run_full_pipeline has returned True, no file remains in the
\* download directory.
C21_SuccessPurgesDirectory == (result = "True") => (listdir(dir) = {})

\* the steps the two flags govern, and the other steps in their order
FlagSteps == {"download_report", "upload_data", "upload_market_stats"}
OtherSteps ==
    <<"find_pdf", "extract", "fetch_data", "fetch_all_companies", "merge_data",
      "fetch_market_stats", "cleanup">>
OtherOps == LET Other(op) == op \notin FlagSteps IN SelectSeq(ops, Other)

\* with upload_to_db false nothing is done at the sink; with download_report
\* false no browser session is started
FlagsGate ==
    /\ ~optUpload =>
          /\ engine = "None" /\ storeLog = <<>>
          /\ ~InOps("upload_data") /\ ~InOps("upload_market_stats")
    /\ ~optDownload =>
          /\ browser = "none" /\ steps = <<>> /\ teardown = <<>>
          /\ ~InOps("download_report")

\* C22: with upload_to_db false a run performs no sink operation and with
\* download_report false it starts no remote session; and whatever the
\* flags, the other steps run in their order up to the end, or up to the one
\* of them that ended the run (it raised, or no file was found).
C22_FlagsOnlyGateTheirSteps ==
    /\ FlagsGate
    /\ OtherOps = SubSeq(OtherSteps, 1, Len(OtherOps))
    /\ (pc = "done") =>
          \/ OtherOps = OtherSteps
          \/ /\ LastOp \notin FlagSteps
             /\ \/ raisedBy = LastOp
                \/ LastOp = "find_pdf" /\ pdf_path = None

\* the steps of the try block of download_report, in the order of the code
AcquisitionOrder == <<"setup", "authenticate", "navigate", "parameterize", "export">>
Confirms == {"confirm", "confirm_swallowed"}
\* the steps started, the OK click of the export dialog left aside
StartedBeforeConfirm ==
    IF steps # <<>> /\ steps[Len(steps)] \in Confirms THEN Len(steps) - 1 ELSE Len(steps)

\* C23: in an acquisition attempt the steps started are, in this order and
\* each once, the driver setup, authenticate, navigate, parameterize and
\* export (the OK click closing the export, once); and when a step has
\* raised it is the last step started, whatever the teardown does after.
C23_StepsStrictlyForward ==
    /\ SubSeq(steps, 1, StartedBeforeConfirm) = SubSeq(AcquisitionOrder, 1, StartedBeforeConfirm)
    /\ StartedBeforeConfirm < Len(steps) => StartedBeforeConfirm = Len(AcquisitionOrder)
    /\ dlRaised # "none" => (steps # <<>> /\ steps[Len(steps)] = dlRaised)

\* navigate raised after authenticate completed, and the teardown has begun
C23_Witness ==
    /\ dlRaised = "navigate"
    /\ steps = <<"setup", "authenticate", "navigate">>
    /\ teardown # <<>>

StepStarted(name) == \E i \in 1..Len(steps) : steps[i] = name

\* C24: when the OK click of the export dialog failed, no exception has
\* reached download_report and the attempt returns True, past the except
\* clause; when an export sub-step before the click failed, the click was
\* never made, control went to the except clause, and the attempt returns
\* what the except clause decides from the directory.
C24_OnlyConfirmationSwallowed ==
    /\ StepStarted("confirm_swallowed") =>
          /\ dlRaised = "none"
          /\ pc \in AfterTry
          /\ dlResult = "True"
    /\ dlRaised = "export" =>
          /\ ~StepStarted("confirm") /\ ~StepStarted("confirm_swallowed")
          /\ pc \in {"dl_except"} \cup AfterTry
          /\ pc \in AfterTry => (dlResult = "True" <=> check_if_pdf_exists(dirAtCheck))

\* the OK click failed with no file in the directory, and download_report
\* is about to return True
C24_Witness ==
    /\ StepStarted("confirm_swallowed")
    /\ pc = "dl_return"
    /\ dlResult = "True"
    /\ listdir(dir) = {}

\* no in-progress marker is listed
NoMarker(d) == \A f \in listdir(d) : ~EndsWith(f, DotCrdownload)

LogoutUrlEvents == {"logout_url", "logout_url_failed"}

\* C26: the teardown begins with the graceful logout; the direct logout URL
\* is requested only as the second event, after a graceful logout that
\* failed; driver.quit() is the last event, the second after a logout that
\* succeeded and the third after the fallback; and the teardown is over
\* only when it has quit.
C26_FallbackOnlyAfterFailedLogout ==
    /\ teardown # <<>> => teardown[1] \in {"logout", "logout_failed"}
    /\ \A i \in 1..Len(teardown) :
          /\ teardown[i] \in LogoutUrlEvents => (i = 2 /\ teardown[1] = "logout_failed")
          /\ teardown[i] = "quit" =>
                /\ i = Len(teardown)
                /\ i = IF teardown[1] = "logout" THEN 2 ELSE 3
                /\ browser = "quit"
          /\ i > 1 => teardown[i] \in LogoutUrlEvents \cup {"quit"}
    /\ (pc = "dl_return" /\ teardown # <<>>) => teardown[Len(teardown)] = "quit"

\* the graceful logout failed, the direct URL was requested, then the quit
C26_Witness == teardown = <<"logout_failed", "logout_url", "quit">>

\* the insert attempts of upload_data in the log, by kind
Inserts(kind) == {i \in 1..Len(storeLog) : storeLog[i].kind = kind}
BulkAnswered(a) == \E i \in Inserts("bulk") : storeLog[i].answer = a

\* C27: upload_data makes at most one bulk append and makes it before any
\* row insert; rows are inserted one by one only when the store rejected the
\* bulk append for a duplicate key, each record of the frame at most once;
\* and when the insert attempts are over, one bulk append was made.
C27_BulkFirstThenRows ==
    /\ Cardinality(Inserts("bulk")) <= 1
    /\ \A i \in Inserts("row") : \E b \in Inserts("bulk") : b < i
    /\ Inserts("row") # {} => BulkAnswered("duplicate")
    /\ (BulkAnswered("ok") \/ BulkAnswered("integrity") \/ BulkAnswered("other"))
          => (Inserts("row") = {} /\ pc # "ud_rows")
    /\ \A i, j \in Inserts("row") : storeLog[i].at = storeLog[j].at => i = j
    /\ \A i \in Inserts("row") : storeLog[i].at \in 1..Len(df_final.rows)
    /\ (pc = "upload_stats" /\ engine = "engine") => Cardinality(Inserts("bulk")) = 1

\* the store errors that are no uniqueness violation
HardErrors == {"integrity", "other"}

\* C28: only a uniqueness violation is taken for a duplicate.  The row by
\* row pass starts exactly when the bulk append was rejected for a duplicate
\* key; a bulk append that failed otherwise, a violation of another
\* integrity constraint included, starts no row insert; and at the end of
\* the pass skipped counts the rows rejected for a duplicate key and errors
\* the rows that failed otherwise.
C28_OnlyUniquenessIsDuplicate ==
    /\ (pc = "ud_rows" \/ Inserts("row") # {}) <=> BulkAnswered("duplicate")
    /\ (pc = "upload_stats" /\ BulkAnswered("duplicate")) =>
          /\ skipped = Cardinality(RowAnswers("duplicate"))
          /\ errors = Cardinality(RowAnswers("integrity") \cup RowAnswers("other"))

Connected == {i \in Inserts("connect") : storeLog[i].answer = "ok"}

C30_PauseBetweenPageRequests ==
    [][ (requests' # requests /\ requests # <<>>) => paused ]_vars

\* the second page has been requested, the first having announced it
C30_Witness ==
    /\ Len(requests) = 2
    /\ requests[1].hasNext
    /\ requests[2].page = 2
    /\ ~paused

\* op a was started before op b
StartedBefore(a, b) == \E i, j \in 1..Len(ops) : i < j /\ ops[i] = a /\ ops[j] = b

\* the positions inside Step 2 and Step 3
InSources == {"extract", "fetch_tv", "fetch_ngx", "ngx_sleep", "ngx_finish"}
Sources == {"extract", "fetch_data", "fetch_all_companies"}

\* merge_data is called only when extract_nge_data, fetch_data and
\* fetch_all_companies were each called before it and are over, none of
\* them having raised
MergeAfterSources ==
    /\ pc = "merge" => (\A op \in Sources : InOps(op))
    /\ InOps("merge_data") =>
          /\ \A op \in Sources : StartedBefore(op, "merge_data")
          /\ pc \notin InSources
          /\ raisedBy \notin Sources

\* the steps before the sink were called in their order and none raised
StepsReturned ==
    /\ \A op \in Sources : StartedBefore(op, "merge_data")
    /\ StartedBefore("merge_data", "fetch_market_stats")
    /\ StartedBefore("fetch_market_stats", "upload_data")
    /\ raisedBy \notin Sources \cup {"merge_data", "fetch_market_stats"}
    /\ df_market_stats = StatsFrame

\* a request of the directory fetch failed (transport or JSON error)
RequestFailed == \E i \in 1..Len(requests) : requests[i].answer = "error"

\* C31 as stated: merge_data begins only after extraction and both source
\* fetches are over, and upload_data is called only when extraction, both
\* source fetches, the merge and the snapshot fetch completed with no error:
\* none raised, and no request of a fetch failed.
C31_SinkAfterAllSucceeded ==
    /\ MergeAfterSources
    /\ InOps("upload_data") => (StepsReturned /\ ~RequestFailed)

\* C31: merge_data begins only after extraction and both source fetches are
\* over, and upload_data is called only when extraction, both source
\* fetches, the merge and the snapshot fetch each returned without raising;
\* a directory fetch that a failed request cut short returns the pages it
\* has and counts as returned.
C31_SinkAfterAllReturned ==
    /\ MergeAfterSources
    /\ InOps("upload_data") => StepsReturned

\* the bulk append was made in a run whose directory fetch was cut short by
\* a failed request on its second page
C31_Witness ==
    /\ Inserts("bulk") # {}
    /\ RequestFailed
    /\ Len(requests) = 2
    /\ raisedBy = "none"

\* a file the poll accepts is in the directory: a .pdf name, size above zero
Acceptable(d) == \E f \in listdir(d) : EndsWith(Lower(f), DotPdf) /\ d[f] = "nonempty"

\* C32 as stated: when download_report has decided to return True, on the
\* path where no step raised as on the path of the override, a complete,
\* non-empty file with a .pdf name is in the download directory.
C32_SuccessImpliesAcceptableArtifact ==
    (pc = "dl_finally" /\ dlResult = "True") => Acceptable(dir)

\* C32: when download_report returns True, either no step raised, every
\* step up to the OK click was made and the directory was never looked at,
\* or a step raised and the except clause found a file with a .pdf name
\* listed, whatever its size.
C32_SuccessMeansInitiatedOrListed ==
    (pc \in AfterTry /\ dlResult = "True") =>
        \/ /\ dlRaised = "none"
           /\ \E c \in Confirms : steps = Append(AcquisitionOrder, c)
           /\ dirAtCheck = EmptyDir
        \/ /\ dlRaised # "none"
           /\ \E f \in listdir(dirAtCheck) : EndsWith(Lower(f), DotPdf)

\* download_report is about to return True by the override, having found
\* only an empty file with a .pdf name
C32_Witness ==
    /\ pc = "dl_return"
    /\ dlResult = "True"
    /\ dlRaised # "none"
    /\ dirAtCheck[ReportPdf] = "empty"
    /\ ~Acceptable(dirAtCheck)

====
